---------------------------- MODULE Spec2Model ----------------------------
(***************************************************************************)
(* Bitbucket pipeline monitor: the model normalizer                        *)
(* (bitbucket_monitor/models.py), the renderer's data path                 *)
(* (bitbucket_monitor/display.py), the fetcher's resolution logic          *)
(* (bitbucket_monitor/api.py) and the refresh engine                       *)
(* (bitbucket_monitor/cli.py).                                             *)
(*                                                                         *)
(* A Python dict is a TLA+ function whose DOMAIN is the set of keys that   *)
(* are present, so dict.get(k, d) can tell a missing key from a present    *)
(* one.  A timestamp string is a record [kind, t, sfx]: kind "empty" is    *)
(* the string "", kind "iso" an ISO-8601 date-time t milliseconds after    *)
(* a reference instant with the zone suffix sfx ("", "Z" or "+00:00"),     *)
(* and kind "junk" any other text.  A datetime is [some, t, aware];        *)
(* some = FALSE is Python's None.                                          *)
(***************************************************************************)
EXTENDS Integers, Sequences, FiniteSets, TLC

VARIABLES
    pc,           \* position of the control flow
    cfg,          \* command-line options and environment of the run
    latest,       \* remote: newest pipeline on the branch (0 = none)
    settled,      \* remote: the pipeline has ended and every request succeeds
    pipeline,     \* the engine's current snapshot (None or a Pipeline)
    screen,       \* what the renderer printed last
    raw,          \* the raw document handed to the normalizer last
    outcome,      \* "none" | "ok" | "error" | "stopped"
    exitCode,     \* process exit code once the command has ended
    cycles,       \* calls of update_pipeline
    sleeps,       \* calls of time.sleep
    renders,      \* layouts printed by display_pipeline
    errors,       \* "Error:" lines printed
    fetches,      \* requests sent to the API
    latestCalls,  \* calls of get_latest_pipeline
    firstId,      \* identifier the first cycle fetched steps/variables for
    idsSame,      \* every cycle so far fetched steps/variables for firstId
    lastFail,     \* why the last cycle failed ("" = it succeeded)
    firstFail,    \* why the first cycle failed ("" = it succeeded)
    firstTerm,    \* index of the first cycle whose snapshot was terminal
    allOk,        \* every cycle so far succeeded
    notFound,     \* a latest-on-branch resolution came back empty
    afterNF,      \* requests sent after that empty resolution
    afterStop     \* where Ctrl-C arrived, and <<cycles, fetches, renders>> then

vars == <<pc, cfg, latest, settled, pipeline, screen, raw, outcome, exitCode,
          cycles, sleeps, renders, errors, fetches, latestCalls, firstId, idsSame,
          lastFail, firstFail, firstTerm, allOk, notFound, afterNF, afterStop>>

---------------------------------------------------------------------------
(* Bounds *)

MaxCycles == 3      \* update_pipeline calls explored per run
MaxPipelines == 2   \* pipelines that can exist on the branch
MaxVars == 1        \* raw variable documents per pipeline
MaxSteps == 1       \* raw step documents per pipeline

---------------------------------------------------------------------------
(* Python values *)

EmptyDict == <<>>

Get(m, k, def) == IF k \in DOMAIN m THEN m[k] ELSE def

EmptyStr == [kind |-> "empty", t |-> 0, sfx |-> ""]
Iso(t, sfx) == [kind |-> "iso", t |-> t, sfx |-> sfx]
Junk == [kind |-> "junk", t |-> 0, sfx |-> ""]

Truthy(s) == s.kind # "empty"

NoneDT == [some |-> FALSE, t |-> 0, aware |-> FALSE]
DT(t, aware) == [some |-> TRUE, t |-> t, aware |-> aware]

NoneInt == [some |-> FALSE, v |-> 0]
SomeInt(v) == [some |-> TRUE, v |-> v]

None == [none |-> TRUE]

\* str.replace("Z", "+00:00")
ReplaceZ(s) == IF s.sfx = "Z" THEN [s EXCEPT !.sfx = "+00:00"] ELSE s

\* datetime.fromisoformat: a value, or ValueError (ok = FALSE)
fromisoformat(s) ==
    IF s.kind = "iso" /\ s.sfx \in {"", "+00:00"}
    THEN [ok |-> TRUE, dt |-> DT(s.t, s.sfx = "+00:00")]
    ELSE [ok |-> FALSE, dt |-> NoneDT]

\* int(timedelta.total_seconds()): truncation toward zero
IntSeconds(ms) == IF ms >= 0 THEN ms \div 1000 ELSE -((-ms) \div 1000)

\* a - b on datetimes raises TypeError when exactly one is offset-aware
CanSubtract(a, b) == a.aware = b.aware

\* str.upper on the status spellings of the model
Upper(s) ==
    CASE s = "successful" -> "SUCCESSFUL"
      [] s = "Failed" -> "FAILED"
      [] OTHER -> s


---------------------------------------------------------------------------
(* models.py: the normalizer *)

MASK == "********"

TerminalStatuses == {"COMPLETED", "SUCCESSFUL", "FAILED", "STOPPED", "ERROR"}

\* A field read as  d.get(k)  and tested for truth before it is parsed
ParseIfTruthy(d, k) ==
    IF k \in DOMAIN d /\ Truthy(d[k])
    THEN fromisoformat(ReplaceZ(d[k]))
    ELSE [ok |-> TRUE, dt |-> NoneDT]

\* A field read as  d.get(k, "")  and parsed unconditionally
ParseAlways(d, k) == fromisoformat(ReplaceZ(Get(d, k, EmptyStr)))

\* Mutant of VariableOf: the raw value is kept for secured variables
VariableOf_Unmasked(var) ==
    [key |-> Get(var, "key", ""),
     value |-> Get(var, "value", ""),
     secured |-> Get(var, "secured", FALSE)]

\* One PipelineVariable (models.py lines 110-116)
VariableOf(var) ==
    [key |-> Get(var, "key", ""),
     value |-> IF ~Get(var, "secured", FALSE) THEN Get(var, "value", "")
               ELSE MASK,
     secured |-> Get(var, "secured", FALSE)]

\* One PipelineStep, or the exception raised while building it
StepOf(step_data) ==
    LET start == ParseIfTruthy(step_data, "started_on")
        end == ParseIfTruthy(step_data, "completed_on")
        both == start.dt.some /\ end.dt.some
    IN  [ok |-> start.ok /\ end.ok /\ (both => CanSubtract(end.dt, start.dt)),
         step |-> [name |-> Get(step_data, "name", ""),
                   status |-> Get(Get(step_data, "state", EmptyDict), "name", ""),
                   start_time |-> start.dt,
                   end_time |-> end.dt,
                   duration_seconds |->
                       IF both THEN SomeInt(IntSeconds(end.dt.t - start.dt.t))
                       ELSE NoneInt]]

\* Mutant of CompletedOn: the field read is created_on
CompletedOn_WrongField(data) == ParseIfTruthy(data, "created_on")

\* Lines 145-146: completed_on, parsed only when the field is truthy
CompletedOn(data) == ParseIfTruthy(data, "completed_on")

\* Line 144: created_on, parsed whether or not the field is there
CreatedOn(data) == ParseAlways(data, "created_on")

\* Pipeline.from_api_response: [ok, err, p]; ok = FALSE is an exception
\* raised at the field err, and p is then None
from_api_response(data) ==
    LET commit_data == Get(data, "commit", EmptyDict)
        date == ParseAlways(commit_data, "date")
        rawVars == Get(data, "variables", <<>>)
        variables == [i \in 1..Len(rawVars) |-> VariableOf(rawVars[i])]
        rawSteps == Get(data, "steps", <<>>)
        built == [i \in 1..Len(rawSteps) |-> StepOf(rawSteps[i])]
        stepsOk == \A i \in 1..Len(rawSteps) : built[i].ok
        created == CreatedOn(data)
        completed == CompletedOn(data)
        err == CASE ~date.ok -> "commit.date"
                 [] ~stepsOk -> "steps"
                 [] ~created.ok -> "created_on"
                 [] ~completed.ok -> "completed_on"
                 [] OTHER -> ""
    IN  [ok |-> err = "",
         err |-> err,
         p |-> IF err # "" THEN None
               ELSE [uuid |-> Get(data, "uuid", ""),
                     repository |-> Get(Get(data, "repository", EmptyDict),
                                        "full_name", ""),
                     branch |-> Get(Get(data, "target", EmptyDict),
                                    "ref_name", ""),
                     commit |-> [hash |-> Get(commit_data, "hash", ""),
                                 message |-> Get(commit_data, "message", ""),
                                 author |-> Get(Get(commit_data, "author",
                                                    EmptyDict),
                                                "display_name", ""),
                                 date |-> date.dt],
                     pipeline_name |-> Get(Get(Get(data, "target", EmptyDict),
                                               "selector", EmptyDict),
                                           "pattern", "default"),
                     status |-> Get(Get(data, "state", EmptyDict), "name", ""),
                     created_on |-> created.dt,
                     completed_on |-> completed.dt,
                     variables |-> variables,
                     steps |-> [i \in 1..Len(rawSteps) |-> built[i].step]]]

\* The shared "Xh Ym Zs" formatting of the two duration_str properties
FormatDuration(v, zeroText) ==
    IF v = 0 THEN [form |-> zeroText, h |-> 0, m |-> 0, s |-> 0]
    ELSE LET seconds == v % 60
             minutes == (v \div 60) % 60
             hours == (v \div 60) \div 60
         IN  IF hours > 0 THEN [form |-> "hms", h |-> hours, m |-> minutes,
                                s |-> seconds]
             ELSE IF minutes > 0 THEN [form |-> "ms", h |-> 0, m |-> minutes,
                                       s |-> seconds]
             ELSE [form |-> "s", h |-> 0, m |-> 0, s |-> seconds]

\* PipelineStep.duration_str
Step_duration_str(step) ==
    IF ~step.duration_seconds.some
    THEN FormatDuration(0, "Not completed")
    ELSE FormatDuration(step.duration_seconds.v, "Not completed")

\* Pipeline.duration_seconds: datetime.now() is naive
Pipeline_duration_seconds(p, now) ==
    IF ~p.completed_on.some
    THEN [ok |-> ~p.created_on.aware, v |-> IntSeconds(now - p.created_on.t)]
    ELSE [ok |-> CanSubtract(p.completed_on, p.created_on),
          v |-> IntSeconds(p.completed_on.t - p.created_on.t)]

---------------------------------------------------------------------------
(* display.py: the renderer *)

STATUS_COLORS ==
    [SUCCESSFUL |-> "green", COMPLETED |-> "green", FAILED |-> "red",
     ERROR |-> "red", STOPPED |-> "yellow", PAUSED |-> "yellow",
     IN_PROGRESS |-> "blue", PENDING |-> "cyan", RUNNING |-> "blue"]

_get_status_color(status) == Get(STATUS_COLORS, Upper(status), "white")

Blank == [blank |-> TRUE]

\* PipelineDisplay.display_pipeline: [ok, out]; ok = FALSE is an exception
\* raised before the layout is printed
display_pipeline(p, now) ==
    LET d == Pipeline_duration_seconds(p, now)
    IN  [ok |-> d.ok,
         out |-> IF ~d.ok THEN Blank
                 ELSE [title |-> <<p.repository, p.branch>>,
                       name |-> p.pipeline_name,
                       status |-> p.status,
                       color |-> _get_status_color(p.status),
                       duration |-> FormatDuration(d.v, "Not started"),
                       started |-> p.created_on.t,
                       commit |-> <<p.commit.hash, p.commit.author,
                                    p.commit.date.t, p.commit.message>>,
                       variables |->
                           [i \in 1..Len(p.variables) |->
                               <<p.variables[i].key,
                                 IF ~p.variables[i].secured
                                 THEN p.variables[i].value ELSE MASK>>],
                       steps |->
                           [i \in 1..Len(p.steps) |->
                               <<p.steps[i].name, p.steps[i].status,
                                 _get_status_color(p.steps[i].status),
                                 Step_duration_str(p.steps[i])>>]]]

---------------------------------------------------------------------------
(* Raw documents the remote API can return *)

Opt(k, Vals) == {EmptyDict} \cup {k :> v : v \in Vals}

SeqsUpTo(S, n) == UNION {[1..k -> S] : k \in 0..n}

IdOf == <<"P1", "P2", "P3", "P4">>

Statuses == {"RUNNING", "SUCCESSFUL", "FAILED"}

\* datetime.now() as read by the renderer
NowSet == {0, 5000}

FullCommit(date) ==
    [hash |-> "abcdef0123", message |-> "fix", date |-> date,
     author |-> [display_name |-> "dev"]]

RawVariables ==
    {EmptyDict,
     [key |-> "MODE", value |-> "s3cr3t", secured |-> FALSE]} \cup
    {("key" :> "TOKEN") @@ ("secured" :> TRUE) @@ b :
        b \in Opt("value", {"s3cr3t", "hunter2"})}

RawSteps ==
    {EmptyDict,
     [name |-> "build", state |-> [name |-> "COMPLETED"],
      started_on |-> Iso(0, "Z"), completed_on |-> Iso(1500, "Z")]}

\* The inputs of the normalizer
RawDocs ==
    {d @@ st @@ cr @@ co @@ cm @@ vs @@ ss :
        d \in {EmptyDict,
               [uuid |-> "P1", repository |-> [full_name |-> "ws/repo"],
                target |-> [ref_name |-> "main",
                            selector |-> [pattern |-> "nightly"]]]},
        st \in Opt("state", {EmptyDict} \cup {"name" :> s : s \in Statuses}),
        cr \in Opt("created_on", {Iso(0, ""), Iso(0, "Z")}),
        co \in Opt("completed_on",
                   {EmptyStr, Iso(1500, ""), Iso(1500, "Z"), Junk}),
        cm \in Opt("commit", {FullCommit(Iso(0, "")),
                              [date |-> Iso(0, "Z")]}),
        vs \in Opt("variables", SeqsUpTo(RawVariables, MaxVars)),
        ss \in Opt("steps", SeqsUpTo(RawSteps, MaxSteps))}

\* The pipeline documents the engine is served for the identifier id
EngineDocs(id) ==
    {d @@ st @@ cr @@ co @@ ("commit" :> FullCommit(Iso(0, ""))) :
        d \in Opt("uuid", {id}),
        st \in Opt("state", {"name" :> s :
                                s \in {"RUNNING", "SUCCESSFUL", "successful"}}),
        cr \in Opt("created_on", {Iso(0, ""), Iso(0, "Z")}),
        co \in Opt("completed_on", {Iso(1500, ""), Iso(1500, "Z")})}

---------------------------------------------------------------------------
(* cli.py: update_pipeline *)

Configs ==
    [uuid : {"", IdOf[1]}, branch : {"", "main"}, refresh : {0, 5},
     creds : BOOLEAN]

Failed(kind, n, usedLatest, id) ==
    [fail |-> kind, p |-> None, out |-> Blank, nfetch |-> n,
     usedLatest |-> usedLatest, id |-> id]

\* Lines 56-61 of update_pipeline on the assembled document e
Finish(e, now, usedLatest) ==
    LET n == from_api_response(e)
        r == display_pipeline(n.p, now)
    IN  IF ~n.ok THEN Failed("normalize", 3, usedLatest, e.uuid)
        ELSE IF ~r.ok THEN Failed("render", 3, usedLatest, e.uuid)
        ELSE [fail |-> "", p |-> n.p, out |-> r.out, nfetch |-> 3,
              usedLatest |-> usedLatest, id |-> e.uuid]

\* Everything one call of update_pipeline can do, given the options c and
\* the newest pipeline lat of the branch: fail is "" when the snapshot p
\* was rendered as out, and otherwise names the step that raised; nfetch
\* counts the API requests sent, usedLatest tells whether
\* get_latest_pipeline was called, id is the identifier the steps were
\* fetched for ("" when the cycle did not get that far).
update_pipeline(c, lat) ==
    LET byId == c.uuid # ""
        u == ~byId
        docs == IF byId THEN EngineDocs(c.uuid)
                ELSE IF lat = 0 THEN {}
                ELSE EngineDocs(IdOf[lat])
        withUuid == {d \in docs : "uuid" \in DOMAIN d}
        full == {d @@ ("steps" :> <<>>) @@ ("variables" :> <<>>) :
                    d \in withUuid}
    IN  {Failed("transport", 1, u, "")}
        \cup (IF u /\ lat = 0 THEN {Failed("notfound", 1, u, "")} ELSE {})
        \cup (IF docs \ withUuid # {} THEN {Failed("keyerror", 1, u, "")}
              ELSE {})
        \cup {Failed("transport", n, u, d.uuid) :
                 n \in {2, 3}, d \in withUuid}
        \cup {Finish(e, now, u) : e \in full, now \in NowSet}

\* One call of update_pipeline against the remote side: once the remote
\* side has settled, every request, the normalizer and the renderer
\* succeed and the pipeline is in one of the states of cli.py line 79
Cycle(c, lat, s) ==
    IF s THEN {r \in update_pipeline(c, lat) :
                  r.fail = "" /\ r.p.status \in TerminalStatuses}
    ELSE update_pipeline(c, lat)

\* Cycle, tabulated over its arguments; @@ makes the table an explicit
\* one, computed once, where TLC would keep [x \in S |-> e] unevaluated
Outcomes ==
    [c \in Configs, lat \in 0..MaxPipelines, s \in BOOLEAN |->
        Cycle(c, lat, s)] @@ <<>>

---------------------------------------------------------------------------
(* cli.py: monitor_pipeline *)

Init ==
    /\ pc = "validate"
    /\ cfg \in Configs
    /\ latest \in 0..MaxPipelines
    /\ settled = FALSE
    /\ pipeline = None
    /\ screen = Blank
    /\ raw = EmptyDict
    /\ outcome = "none"
    /\ exitCode = -1
    /\ cycles = 0
    /\ sleeps = 0
    /\ renders = 0
    /\ errors = 0
    /\ fetches = 0
    /\ latestCalls = 0
    /\ firstId = ""
    /\ idsSame = TRUE
    /\ lastFail = ""
    /\ firstFail = ""
    /\ firstTerm = 0
    /\ allOk = TRUE
    /\ notFound = FALSE
    /\ afterNF = 0
    /\ afterStop = [at |-> "", n |-> <<0, 0, 0>>]

\* The command ends: raise typer.Exit(1), or return
Exit(how, code) ==
    /\ pc' = "done"
    /\ outcome' = how
    /\ exitCode' = code

\* The bookkeeping of one update_pipeline call with result r
Record(r) ==
    /\ cycles' = cycles + 1
    /\ fetches' = fetches + r.nfetch
    /\ latestCalls' = latestCalls + (IF r.usedLatest THEN 1 ELSE 0)
    /\ renders' = renders + (IF r.fail = "" THEN 1 ELSE 0)
    /\ screen' = IF r.fail = "" THEN r.out
                 ELSE IF r.fail = "render" THEN Blank ELSE screen
    /\ firstId' = IF cycles = 0 THEN r.id ELSE firstId
    /\ idsSame' = (idsSame /\ (cycles > 0 /\ r.id # "" => r.id = firstId))
    /\ lastFail' = r.fail
    /\ firstFail' = IF cycles = 0 THEN r.fail ELSE firstFail
    /\ firstTerm' = IF firstTerm = 0 /\ r.fail = ""
                       /\ r.p.status \in TerminalStatuses
                    THEN cycles + 1 ELSE firstTerm
    /\ allOk' = (allOk /\ r.fail = "")
    /\ notFound' = (notFound \/ r.fail = "notfound")
    /\ afterNF' = IF notFound THEN afterNF + r.nfetch ELSE afterNF

history == <<cycles, fetches, latestCalls, renders, screen, firstId, idsSame,
             lastFail, firstFail, firstTerm, allOk, notFound, afterNF>>

\* Mutant of Validate: the options are not checked
Validate_Unchecked ==
    /\ pc = "validate"
    /\ pc' = "construct"
    /\ UNCHANGED <<errors, outcome, exitCode>>
    /\ UNCHANGED <<cfg, latest, settled, pipeline, raw, sleeps, afterStop, history>>

\* Lines 30-32
Validate ==
    /\ pc = "validate"
    /\ IF cfg.uuid = "" /\ cfg.branch = ""
       THEN /\ errors' = errors + 1
            /\ Exit("error", 1)
       ELSE /\ pc' = "construct"
            /\ UNCHANGED <<errors, outcome, exitCode>>
    /\ UNCHANGED <<cfg, latest, settled, pipeline, raw, sleeps, afterStop, history>>

\* Lines 35-36, and lines 86-88 when the credentials are missing
Construct ==
    /\ pc = "construct"
    /\ IF cfg.creds
       THEN /\ pc' = "initial"
            /\ UNCHANGED <<errors, outcome, exitCode>>
       ELSE /\ errors' = errors + 1
            /\ Exit("error", 1)
    /\ UNCHANGED <<cfg, latest, settled, pipeline, raw, sleeps, afterStop, history>>

\* Lines 67-69: typer.Exit is an Exception, so line 86 catches and
\* re-raises it after printing a second error line
InitialUpdate ==
    /\ pc = "initial"
    /\ \E r \in Outcomes[cfg, latest, settled] :
        /\ Record(r)
        /\ pipeline' = r.p
        /\ IF r.fail # ""
           THEN /\ errors' = errors + 2
                /\ Exit("error", 1)
           ELSE /\ pc' = "refresh"
                /\ UNCHANGED <<errors, outcome, exitCode>>
    /\ UNCHANGED <<cfg, latest, settled, raw, sleeps, afterStop>>

\* Mutant of RefreshCheck: the test is  refresh >= 0
RefreshCheck_NonNegative ==
    /\ pc = "refresh"
    /\ IF cfg.refresh >= 0
       THEN /\ pc' = "sleep"
            /\ UNCHANGED <<outcome, exitCode>>
       ELSE Exit("single", 0)
    /\ UNCHANGED <<cfg, latest, settled, pipeline, raw, sleeps, errors, afterStop,
                   history>>

\* Line 72
RefreshCheck ==
    /\ pc = "refresh"
    /\ IF cfg.refresh > 0
       THEN /\ pc' = "sleep"
            /\ UNCHANGED <<outcome, exitCode>>
       ELSE Exit("single", 0)
    /\ UNCHANGED <<cfg, latest, settled, pipeline, raw, sleeps, errors, afterStop,
                   history>>

\* Line 75, the sleep elapsing
Sleep ==
    /\ pc = "sleep"
    /\ cycles < MaxCycles
    /\ sleeps' = sleeps + 1
    /\ pc' = "update"
    /\ UNCHANGED <<cfg, latest, settled, pipeline, raw, outcome, exitCode, errors,
                   afterStop, history>>

\* Mutant of LoopUpdate: a failed refresh ends the run like a failed
\* initial update
LoopUpdate_AbortOnFailure ==
    /\ pc = "update"
    /\ \E r \in Outcomes[cfg, latest, settled] :
        /\ Record(r)
        /\ pipeline' = r.p
        /\ errors' = errors + (IF r.fail # "" THEN 1 ELSE 0)
        /\ IF r.fail # "" THEN Exit("error", 1)
           ELSE IF r.p.status \in TerminalStatuses
           THEN Exit("completed", 0)
           ELSE /\ pc' = "sleep"
                /\ UNCHANGED <<outcome, exitCode>>
    /\ UNCHANGED <<cfg, latest, settled, raw, sleeps, afterStop>>

\* Mutant of LoopUpdate: the loop has no test of the status and no break
LoopUpdate_NoBreak ==
    /\ pc = "update"
    /\ \E r \in Outcomes[cfg, latest, settled] :
        /\ Record(r)
        /\ pipeline' = r.p
        /\ errors' = errors + (IF r.fail # "" THEN 1 ELSE 0)
        /\ pc' = "sleep"
        /\ UNCHANGED <<outcome, exitCode>>
    /\ UNCHANGED <<cfg, latest, settled, raw, sleeps, afterStop>>

\* Lines 76-82
LoopUpdate ==
    /\ pc = "update"
    /\ \E r \in Outcomes[cfg, latest, settled] :
        /\ Record(r)
        /\ pipeline' = r.p
        /\ errors' = errors + (IF r.fail # "" THEN 1 ELSE 0)
        /\ IF r.fail = "" /\ r.p.status \in TerminalStatuses
           THEN Exit("completed", 0)
           ELSE /\ pc' = "sleep"
                /\ UNCHANGED <<outcome, exitCode>>
    /\ UNCHANGED <<cfg, latest, settled, raw, sleeps, afterStop>>

\* Mutant of KeyboardInterrupt: the interrupt is reported like any other
\* exception, by lines 86-88
KeyboardInterrupt_AsError ==
    /\ pc \in {"sleep", "update"}
    /\ sleeps' = IF pc = "sleep" THEN sleeps + 1 ELSE sleeps
    /\ afterStop' = [at |-> pc, n |-> <<cycles, fetches, renders>>]
    /\ errors' = errors + 1
    /\ Exit("error", 1)
    /\ UNCHANGED <<cfg, latest, settled, pipeline, raw, history>>

\* Lines 83-84: Ctrl-C inside the loop, during the sleep or the update
KeyboardInterrupt ==
    /\ pc \in {"sleep", "update"}
    /\ sleeps' = IF pc = "sleep" THEN sleeps + 1 ELSE sleeps
    /\ afterStop' = [at |-> pc, n |-> <<cycles, fetches, renders>>]
    /\ Exit("stopped", 0)
    /\ UNCHANGED <<cfg, latest, settled, pipeline, raw, errors, history>>

\* The remote side between two cycles: a newer pipeline is started on
\* the branch, or the query stops matching any pipeline
RemoteChange ==
    /\ pc = "sleep"
    /\ ~settled
    /\ \E l \in 0..MaxPipelines :
        /\ l # latest
        /\ latest' = l
    /\ UNCHANGED <<pc, cfg, settled, pipeline, raw, outcome, exitCode, sleeps,
                   errors, afterStop, history>>

Next ==
    \/ Validate
    \/ Construct
    \/ InitialUpdate
    \/ RefreshCheck
    \/ Sleep
    \/ LoopUpdate
    \/ KeyboardInterrupt
    \/ RemoteChange

Spec == Init /\ [][Next]_vars

---------------------------------------------------------------------------
(* The refresh loop against a remote side that settles: from then on the  *)
(* pipeline has ended and every cycle succeeds.  The command is one       *)
(* sequential program, so a step of it that can be taken is taken; Ctrl-C *)
(* and the remote side are under no such obligation.                      *)

Settle ==
    /\ pc \in {"initial", "sleep"}
    /\ ~settled
    /\ cycles < MaxCycles
    /\ cfg.uuid # "" \/ latest # 0
    /\ settled' = TRUE
    /\ UNCHANGED <<pc, cfg, latest, pipeline, raw, outcome, exitCode, sleeps,
                   errors, afterStop, history>>

InitFair ==
    /\ Init
    /\ cfg.refresh > 0

EngineStep ==
    \/ Validate
    \/ Construct
    \/ InitialUpdate
    \/ RefreshCheck
    \/ Sleep
    \/ LoopUpdate

NextFair ==
    \/ EngineStep
    \/ KeyboardInterrupt
    \/ RemoteChange
    \/ Settle

SpecFair == InitFair /\ [][NextFair]_vars /\ WF_vars(EngineStep)

---------------------------------------------------------------------------
(* The normalizer and the renderer on their own: one raw document is      *)
(* normalized, and the snapshot, if there is one, is rendered.            *)

InitNorm ==
    /\ pc = "raw"
    /\ raw \in RawDocs
    /\ cfg = [uuid |-> "", branch |-> "main", refresh |-> 0, creds |-> TRUE]
    /\ latest = 0
    /\ settled = FALSE
    /\ pipeline = None
    /\ screen = Blank
    /\ outcome = "none"
    /\ exitCode = -1
    /\ cycles = 0
    /\ sleeps = 0
    /\ renders = 0
    /\ errors = 0
    /\ fetches = 0
    /\ latestCalls = 0
    /\ firstId = ""
    /\ idsSame = TRUE
    /\ lastFail = ""
    /\ firstFail = ""
    /\ firstTerm = 0
    /\ allOk = TRUE
    /\ notFound = FALSE
    /\ afterNF = 0
    /\ afterStop = [at |-> "", n |-> <<0, 0, 0>>]

\* Pipeline.from_api_response(raw)
Normalize ==
    /\ pc = "raw"
    /\ pipeline' = from_api_response(raw).p
    /\ lastFail' = from_api_response(raw).err
    /\ pc' = "normalized"
    /\ UNCHANGED <<cfg, latest, settled, screen, raw, outcome, exitCode, cycles,
                   sleeps, renders, errors, fetches, latestCalls, firstId,
                   idsSame, firstFail, firstTerm, allOk, notFound, afterNF,
                   afterStop>>

\* display.display_pipeline(pipeline)
Display ==
    /\ pc = "normalized"
    /\ pipeline # None
    /\ \E now \in NowSet :
        LET r == display_pipeline(pipeline, now)
        IN  /\ screen' = r.out
            /\ renders' = renders + (IF r.ok THEN 1 ELSE 0)
            /\ lastFail' = IF r.ok THEN "" ELSE "render"
    /\ pc' = "rendered"
    /\ UNCHANGED <<cfg, latest, settled, pipeline, raw, outcome, exitCode, cycles,
                   sleeps, errors, fetches, latestCalls, firstId, idsSame,
                   firstFail, firstTerm, allOk, notFound, afterNF, afterStop>>

NextNorm ==
    \/ Normalize
    \/ Display

SpecNorm == InitNorm /\ [][NextNorm]_vars

---------------------------------------------------------------------------
(* Properties of the refresh engine, checked under Spec *)

Terminal(p) == p # None /\ p.status \in TerminalStatuses

CycleFailures == {"transport", "normalize"}

\* C1: with a refresh interval > 0, once a cycle (the first one included)
\* has rendered a snapshot whose status is terminal, the engine neither
\* sleeps nor fetches again; so a run whose cycles all succeeded and that
\* ended on a terminal snapshot made as many cycles as the index of the
\* first terminal snapshot.
C1_StopsAfterTerminalSnapshot ==
    cfg.refresh > 0 =>
        /\ (cycles >= 1 /\ lastFail = "" /\ Terminal(pipeline)
                => sleeps < cycles /\ pc # "update")
        /\ (outcome = "completed" /\ allOk => cycles = firstTerm)

\* C2: without an explicit identifier, get_latest_pipeline is called at
\* most once in a run, and every cycle fetches the steps and variables of
\* the pipeline the first cycle resolved.
C2_ResolutionPinned ==
    cfg.uuid = "" => latestCalls <= 1 /\ idsSame

\* C3: a transport or normalization failure in the first cycle ends the
\* run with an error, without a sleep, a render or a second cycle; the
\* same failure in a later cycle is reported, renders nothing, leaves the
\* loop running, and is followed by the sleep and the next cycle (or by a
\* cancellation).
C3_FailureHandling ==
    [][/\ (pc = "initial" /\ cycles' = cycles + 1
              /\ lastFail' \in CycleFailures)
          => /\ pc' = "done" /\ outcome' = "error" /\ exitCode' = 1
             /\ errors' > errors
             /\ cycles' = 1 /\ sleeps' = 0 /\ renders' = 0
       /\ (pc = "update" /\ cycles' = cycles + 1
              /\ lastFail' \in CycleFailures)
          => /\ pc' = "sleep" /\ outcome' = "none"
             /\ errors' = errors + 1
             /\ renders' = renders /\ screen' = screen
             /\ pipeline' = None
       /\ (pc = "sleep" /\ lastFail \in CycleFailures /\ pc' # "sleep")
          => \/ pc' = "update" /\ sleeps' = sleeps + 1 /\ outcome' = "none"
             \/ outcome' = "stopped"
       /\ (pc = "update" /\ lastFail \in CycleFailures)
          => \/ cycles' = cycles + 1
             \/ outcome' = "stopped"
       /\ (pc = "done" => UNCHANGED <<cycles, sleeps, renders>>)]_vars

\* A later cycle failed on the transport, the engine slept, and the next
\* cycle is about to run
C3_Witness ==
    /\ cycles >= 2 /\ lastFail = "transport"
    /\ pc = "update" /\ sleeps = cycles /\ outcome = "none"

\* C4: with a refresh interval of 0 the engine makes one cycle and stops,
\* without a sleep or a second fetch, whatever the status of the snapshot.
C4_SingleShot ==
    cfg.refresh = 0 =>
        /\ cycles <= 1 /\ sleeps = 0 /\ fetches <= 3
        /\ pc \notin {"sleep", "update"}
        /\ outcome \notin {"completed", "stopped"}
        /\ (outcome = "single" => pc = "done" /\ cycles = 1 /\ renders = 1)

\* A single-shot run that ended on a snapshot that is not terminal
C4_Witness ==
    /\ cfg.refresh = 0 /\ pc = "done" /\ outcome = "single"
    /\ pipeline # None /\ pipeline.status = "RUNNING"

\* C5: an empty latest-on-branch resolution ends the run with an error
\* whenever it happens, and no request is sent after it.
C5_NotFoundFatal ==
    notFound => pc = "done" /\ outcome = "error" /\ afterNF = 0

\* C6: a cancellation that arrives during the sleep ends the run at once
\* and normally: no fetch, cycle or render follows it, and the exit code
\* is 0.
C6_CancelDuringSleep ==
    afterStop.at = "sleep" =>
        /\ pc = "done" /\ outcome = "stopped" /\ exitCode = 0
        /\ <<cycles, fetches, renders>> = afterStop.n

\* The sleep after the first cycle was interrupted
C6_Witness ==
    /\ afterStop.at = "sleep" /\ pc = "done"
    /\ cycles >= 1 /\ sleeps = cycles

Neither == cfg.uuid = "" /\ cfg.branch = ""
Both == cfg.uuid # "" /\ cfg.branch # ""

\* C7 as stated: a configuration with neither or with both of
\* --pipeline-uuid and --branch is rejected before any fetch.
C7_ExactlyOneRequired ==
    (Neither \/ Both) =>
        /\ fetches = 0
        /\ (pc # "validate" => pc = "done" /\ outcome = "error")

\* C7 as amended: a configuration with neither is rejected before any
\* fetch; one with both is accepted, and every cycle fetches the explicit
\* identifier without ever resolving the latest pipeline of the branch.
C7_AtLeastOneRequired ==
    /\ Neither =>
        /\ fetches = 0 /\ cycles = 0
        /\ (pc # "validate"
               => pc = "done" /\ outcome = "error" /\ exitCode = 1)
    /\ Both =>
        /\ latestCalls = 0
        /\ firstId \in {"", cfg.uuid} /\ idsSame
        /\ (pc = "done" /\ cfg.creds => cycles >= 1 /\ fetches >= 1)

\* The run with neither option has been rejected
C7_Witness ==
    Neither /\ pc = "done" /\ outcome = "error" /\ errors = 1

---------------------------------------------------------------------------
(* Properties of the normalizer and the renderer, checked under SpecNorm *)

Normalized == pc \in {"normalized", "rendered"}

\* C8 as stated: in every snapshot completed_on is present exactly when
\* the status is terminal.
C8_CompletedIffTerminal ==
    pipeline # None =>
        (pipeline.completed_on.some <=> pipeline.status \in TerminalStatuses)

\* C8 as amended: in every snapshot completed_on is present exactly when
\* the raw document has a non-empty completed_on field, and the status is
\* the raw state.name (or ""), each independently of the other.
C8_CompletedIffRawField ==
    Normalized /\ pipeline # None =>
        /\ pipeline.completed_on.some
              <=> ("completed_on" \in DOMAIN raw /\ Truthy(raw.completed_on))
        /\ pipeline.status = Get(Get(raw, "state", EmptyDict), "name", "")

\* A snapshot of a running pipeline that carries a completion time
C8_Witness ==
    /\ Normalized /\ pipeline # None
    /\ pipeline.status = "RUNNING" /\ pipeline.completed_on.some

IsSecured(var) == Get(var, "secured", FALSE)

SecretValues == {"s3cr3t", "hunter2", "0000"}

\* The raw documents that differ from d in the values of secured
\* variables only
SecuredVariants(d) ==
    IF "variables" \notin DOMAIN d THEN {d}
    ELSE LET vs == d.variables
             Alt(v) == IF IsSecured(v)
                       THEN {("value" :> x) @@ v : x \in SecretValues}
                       ELSE {v}
         IN  {("variables" :> w) @@ d :
                 w \in {x \in [1..Len(vs) -> UNION {Alt(vs[i]) :
                                                      i \in 1..Len(vs)}] :
                           \A i \in 1..Len(vs) : x[i] \in Alt(vs[i])}}

\* C9: a secured variable is stored and rendered as the mask whatever its
\* raw value: raw documents that differ only in the values of secured
\* variables give the same snapshot and the same rendered rows.
C9_SecuredMasked ==
    Normalized =>
        /\ pipeline # None =>
              \A i \in 1..Len(pipeline.variables) :
                  IsSecured(raw.variables[i])
                      => pipeline.variables[i].value = MASK
        /\ \A d \in SecuredVariants(raw) :
              /\ from_api_response(d).p = pipeline
              /\ (pc = "rendered" /\ renders = 1) =>
                    \A now \in NowSet :
                        display_pipeline(from_api_response(d).p,
                                         now).out.variables
                            = screen.variables
        /\ (pc = "rendered" /\ renders = 1) =>
              \A i \in 1..Len(screen.variables) :
                  IsSecured(raw.variables[i])
                      => screen.variables[i][2] = MASK

\* A rendered snapshot of a document with a secured variable
C9_Witness ==
    /\ pc = "rendered" /\ renders = 1
    /\ Len(pipeline.variables) >= 1
    /\ IsSecured(raw.variables[1])
    /\ Get(raw.variables[1], "value", "") = "s3cr3t"
    /\ screen.variables[1] = <<"TOKEN", MASK>>

\* Every timestamp field that is present in d is a well-formed ISO string
PresentFieldsValid(d) ==
    LET okIn(m, k) == k \in DOMAIN m => m[k].kind = "iso"
        steps == Get(d, "steps", <<>>)
    IN  /\ okIn(d, "created_on")
        /\ okIn(d, "completed_on")
        /\ okIn(Get(d, "commit", EmptyDict), "date")
        /\ \A i \in 1..Len(steps) :
              okIn(steps[i], "started_on") /\ okIn(steps[i], "completed_on")

\* C10: a raw document whose optional fields are missing, and whose
\* present timestamps are well formed, is normalized into a snapshot.
C10_MissingFieldsDefaulted ==
    Normalized /\ PresentFieldsValid(raw) => pipeline # None

---------------------------------------------------------------------------
(* The normalizer and the renderer on the steps of a pipeline: the raw     *)
(* document is complete and well formed but for its step documents.       *)

StepDocs ==
    {a @@ b @@ c @@ d :
        a \in Opt("name", {"build"}),
        b \in Opt("state", {[name |-> "COMPLETED"]}),
        c \in Opt("started_on", {EmptyStr, Iso(0, "Z"), Iso(1000, "Z")}),
        d \in Opt("completed_on",
                  {EmptyStr, Iso(0, "Z"), Iso(1500, "Z"), Iso(2000, "")})}

BaseDoc ==
    [uuid |-> "P1", repository |-> [full_name |-> "ws/repo"],
     target |-> [ref_name |-> "main"], state |-> [name |-> "SUCCESSFUL"],
     created_on |-> Iso(0, ""), completed_on |-> Iso(1500, ""),
     commit |-> FullCommit(Iso(0, "")), variables |-> <<>>]

InitSteps ==
    /\ pc = "raw"
    /\ raw \in {BaseDoc @@ ("steps" :> ss) :
                   ss \in SeqsUpTo(StepDocs, MaxSteps)}
    /\ cfg = [uuid |-> "", branch |-> "main", refresh |-> 0, creds |-> TRUE]
    /\ latest = 0
    /\ settled = FALSE
    /\ pipeline = None
    /\ screen = Blank
    /\ outcome = "none"
    /\ exitCode = -1
    /\ cycles = 0
    /\ sleeps = 0
    /\ renders = 0
    /\ errors = 0
    /\ fetches = 0
    /\ latestCalls = 0
    /\ firstId = ""
    /\ idsSame = TRUE
    /\ lastFail = ""
    /\ firstFail = ""
    /\ firstTerm = 0
    /\ allOk = TRUE
    /\ notFound = FALSE
    /\ afterNF = 0
    /\ afterStop = [at |-> "", n |-> <<0, 0, 0>>]

SpecSteps == InitSteps /\ [][NextNorm]_vars

\* v is ms milliseconds cut to whole seconds
IsTruncation(v, ms) ==
    IF ms >= 0 THEN v * 1000 <= ms /\ ms < (v + 1) * 1000
    ELSE ms <= v * 1000 /\ (v - 1) * 1000 < ms

\* C11: the duration of a normalized step is present exactly when its
\* start and end are, and is then end - start cut to whole seconds; the
\* rendered step shows "no duration" exactly when the duration is absent,
\* so a duration of 0 seconds is not shown as absent.
C11_StepDuration ==
    Normalized /\ pipeline # None =>
        \A i \in 1..Len(pipeline.steps) :
            LET st == pipeline.steps[i]
            IN  /\ st.duration_seconds.some
                      <=> (st.start_time.some /\ st.end_time.some)
                /\ st.duration_seconds.some
                      => IsTruncation(st.duration_seconds.v,
                                      st.end_time.t - st.start_time.t)
                /\ (pc = "rendered" /\ renders = 1)
                      => (screen.steps[i][4].form = "Not completed"
                             <=> ~st.duration_seconds.some)

\* C13: a refresh cycle of the loop that succeeds with a status that is
\* a terminal name in any letter case stops the loop as completed, as the
\* upper-case spelling does.
C13_TerminalAnyCase ==
    (/\ cycles >= 2
     /\ pc # "update"
     /\ lastFail = ""
     /\ pipeline # None
     /\ Upper(pipeline.status) \in TerminalStatuses)
        => (pc = "done" /\ outcome = "completed")

---------------------------------------------------------------------------
(* Properties of the refresh loop, checked under SpecFair *)

\* C12: with a refresh interval > 0, once the remote side has settled
\* (every cycle from then on succeeds with a terminal status) the engine
\* eventually stops; and the loop, once entered, is left only as
\* completed by a successful cycle with a terminal snapshot or as stopped
\* by a cancellation, never by a failed cycle.
C12_LoopTerminates ==
    /\ (cfg.refresh > 0 /\ settled) ~> (pc = "done")
    /\ [][(pc \in {"sleep", "update"} /\ pc' = "done")
            => \/ outcome' = "stopped"
               \/ /\ outcome' = "completed"
                  /\ lastFail' = ""
                  /\ Terminal(pipeline')]_vars

\* a refresh cycle failed, the loop went on, the remote side settled and
\* the next cycle ended the loop as completed
C12_Witness ==
    /\ settled
    /\ ~allOk
    /\ cycles >= 3
    /\ pc = "done"
    /\ outcome = "completed"

=============================================================================
